---------------------------- MODULE Spec2Model ----------------------------
(***************************************************************************)
(* A model of benchmark_runner.py: the benchmark registry                  *)
(* (_detect_benchmarks), the execution engine and output parser            *)
(* (_run_benchmark), the sequential pipeline (main, run_benchmarks) and    *)
(* the reporter (_display_results, _display_detailed_output).              *)
(*                                                                         *)
(* Text is a sequence of symbols: one-character strings, plus the two      *)
(* literals "MFLOPS:" and "GFLOPS" which are kept as one symbol each.      *)
(* Numbers are fixed-point integers counting thousandths, so 4.2 is 4200   *)
(* and 800 is 800000.                                                      *)
(***************************************************************************)
EXTENDS Integers, Sequences, FiniteSets, TLC

VARIABLES
    build,            \* --build flag of main
    verbose,          \* --verbose flag of main
    rich,             \* RICH_AVAILABLE: which rendering strategy is used
    fs,               \* the filesystem entry at each benchmark's expected path
    pc,               \* position of the pipeline
    benchmarks,       \* self.capabilities["benchmarks"]
    results,          \* self.results
    available_benchmarks, \* the list run_benchmarks iterates over
    idx,              \* index of the next element of available_benchmarks
    proc,             \* the child process being awaited, as a sequence of 0 or 1
    result,           \* the value _run_benchmark returned last, 0 or 1 element
    results_data,     \* the list of successful measurements
    baseline_mflops,  \* the local baseline_mflops of _display_results
    out,              \* what was written to the output sink, in order
    launched          \* history: every child process launched, in order

vars == <<build, verbose, rich, fs, pc, benchmarks, results,
          available_benchmarks, idx, proc, result, results_data,
          baseline_mflops, out, launched>>

--------------------------------------------------------------------------
(* Bounds and program constants *)

MaxLines == 2

Timeout == 120

Kilo == 1000

Scale == 10 * 10 * 10

None == 0 - 1

TimeoutMessage == "Benchmark timed out after 120 seconds"

BenchmarkFiles == <<"basic", "vectorized", "gpu">>

BaselineName == "basic"

--------------------------------------------------------------------------
(* Text helpers *)

Digits == {"0", "1", "2", "3", "4", "5", "6", "7", "8", "9"}

DigitDot == Digits \cup {"."}

Whitespace == {" "}

DigitVal(c) ==
    CASE c = "0" -> 0 [] c = "1" -> 1 [] c = "2" -> 2 [] c = "3" -> 3
      [] c = "4" -> 4 [] c = "5" -> 5 [] c = "6" -> 6 [] c = "7" -> 7
      [] c = "8" -> 8 [] c = "9" -> 9

Min(S) == CHOOSE x \in S : \A y \in S : x <= y

Max(S) == CHOOSE x \in S : \A y \in S : x >= y

SeqMax(s) == Max({s[i] : i \in 1..Len(s)})

SeqMin(s) == Min({s[i] : i \in 1..Len(s)})

\* str.split('\n'): the pieces between newlines; always at least one piece
RECURSIVE SplitFrom(_, _, _)
SplitFrom(text, i, cur) ==
    IF i > Len(text) THEN <<cur>>
    ELSE IF text[i] = "\n" THEN <<cur>> \o SplitFrom(text, i + 1, <<>>)
    ELSE SplitFrom(text, i + 1, Append(cur, text[i]))

SplitLines(text) == SplitFrom(text, 1, <<>>)

\* first position at or after j that holds no whitespace (Len+1 if none)
RECURSIVE SkipWs(_, _)
SkipWs(line, j) ==
    IF j <= Len(line) /\ line[j] \in Whitespace THEN SkipWs(line, j + 1) ELSE j

\* last position of the run of digits and dots that starts at j
RECURSIVE RunEnd(_, _)
RunEnd(line, j) ==
    IF j + 1 <= Len(line) /\ line[j + 1] \in DigitDot THEN RunEnd(line, j + 1) ELSE j

\* re.search(r'MFLOPS:\s*([\d.]+)', line): group 1 as <<group>>, or <<>>
MflopsMatch(line) ==
    LET starts == {i \in 1..Len(line) :
                     /\ line[i] = "MFLOPS:"
                     /\ SkipWs(line, i + 1) <= Len(line)
                     /\ line[SkipWs(line, i + 1)] \in DigitDot}
    IN  IF starts = {} THEN <<>>
        ELSE LET s == SkipWs(line, Min(starts) + 1)
             IN  <<SubSeq(line, s, RunEnd(line, s))>>

\* re.search(r'([\d.]+)\s*GFLOPS', line): group 1 as <<group>>, or <<>>
GflopsMatch(line) ==
    LET starts == {s \in 1..Len(line) :
                     /\ line[s] \in DigitDot
                     /\ SkipWs(line, RunEnd(line, s) + 1) <= Len(line)
                     /\ line[SkipWs(line, RunEnd(line, s) + 1)] = "GFLOPS"}
    IN  IF starts = {} THEN <<>>
        ELSE <<SubSeq(line, Min(starts), RunEnd(line, Min(starts)))>>

\* float(tok) for a token of digits and dots: ValueError unless it has a
\* digit and at most one dot
IsFloat(tok) ==
    /\ \E i \in 1..Len(tok) : tok[i] \in Digits
    /\ Cardinality({i \in 1..Len(tok) : tok[i] = "."}) <= 1

RECURSIVE IntValue(_)
IntValue(ds) ==
    IF ds = <<>> THEN 0
    ELSE 10 * IntValue(SubSeq(ds, 1, Len(ds) - 1)) + DigitVal(ds[Len(ds)])

\* the value of a valid token, in thousandths
FloatValue(tok) ==
    LET dots == {i \in 1..Len(tok) : tok[i] = "."}
        d    == IF dots = {} THEN Len(tok) + 1 ELSE Min(dots)
        ip   == SubSeq(tok, 1, d - 1)
        fp   == SubSeq(tok, d + 1, Len(tok))
        f3   == SubSeq(fp \o <<"0", "0", "0">>, 1, 3)
    IN  IntValue(ip) * Scale + IntValue(f3)

\* the tokens the loop of _run_benchmark hands to float(), line by line
RECURSIVE Tokens(_, _)
Tokens(lines, which) ==
    IF lines = <<>> THEN <<>>
    ELSE (IF which = "m" THEN MflopsMatch(Head(lines)) ELSE GflopsMatch(Head(lines)))
         \o Tokens(Tail(lines), which)

Values(toks) == [i \in 1..Len(toks) |-> FloatValue(toks[i])]

--------------------------------------------------------------------------
(* Benchmark registry *)

FsEntries ==
    {[kind |-> "absent", x |-> FALSE]}
      \cup {[kind |-> k, x |-> b] : k \in {"file", "dir"}, b \in BOOLEAN}

Names == {BenchmarkFiles[i] : i \in 1..Len(BenchmarkFiles)}

PathExists(e) == e.kind # "absent"

PathIsFile(e) == e.kind = "file"

OsAccessX(e) == e.x

DetectOne(e) ==
    [available  |-> PathExists(e) /\ PathIsFile(e),
     executable |-> IF PathExists(e) THEN OsAccessX(e) ELSE FALSE]

_detect_benchmarks(files) == [n \in Names |-> DetectOne(files[n])]

--------------------------------------------------------------------------
(* Execution engine and output parser *)

MaxMflops(mflops_values) ==
    IF mflops_values # <<>> THEN SeqMax(mflops_values) ELSE 0

\* MaxGflops with the two conditionals grouped from the left
MaxGflopsLeftGrouped(mflops_values, gflops_values) ==
    IF mflops_values # <<>>
    THEN (IF gflops_values # <<>> THEN SeqMax(gflops_values)
          ELSE SeqMax(mflops_values) \div Kilo)
    ELSE 0

MaxGflops(mflops_values, gflops_values) ==
    IF gflops_values # <<>> THEN SeqMax(gflops_values)
    ELSE IF mflops_values # <<>> THEN SeqMax(mflops_values) \div Kilo
    ELSE 0

NonZeroExit(p) ==
    [success |-> FALSE, error |-> p.stderr, duration |-> p.elapsed]

\* TimedOut reporting the measured time
TimedOutMeasured(p) ==
    [success |-> FALSE, error |-> TimeoutMessage, duration |-> p.elapsed]

TimedOut(p) ==
    [success |-> FALSE, error |-> TimeoutMessage, duration |-> Timeout]

Raised(msg) ==
    [success |-> FALSE, error |-> msg, duration |-> 0]

Parsed(p) ==
    LET lines == SplitLines(p.stdout)
        mtoks == Tokens(lines, "m")
        gtoks == Tokens(lines, "g")
        bad   == \/ \E i \in 1..Len(mtoks) : ~IsFloat(mtoks[i])
                 \/ \E i \in 1..Len(gtoks) : ~IsFloat(gtoks[i])
    IN  IF bad THEN Raised("could not convert string to float")
        ELSE [success       |-> TRUE,
              output        |-> p.stdout,
              mflops_values |-> Values(mtoks),
              gflops_values |-> Values(gtoks),
              max_mflops    |-> MaxMflops(Values(mtoks)),
              max_gflops    |-> MaxGflops(Values(mtoks), Values(gtoks)),
              duration      |-> p.elapsed]

\* _run_benchmark without the test of the exit code
RunBenchmarkIgnoringExit(p) ==
    IF p.kind = "oserror" THEN Raised(p.stderr)
    ELSE IF p.kind = "timeout" THEN TimedOut(p)
    ELSE Parsed(p)

\* p is what the child process does: kind "exit" (it ends within the
\* timeout with p.returncode), "timeout" (subprocess.run raises
\* TimeoutExpired) or "oserror" (the launch raises)
_run_benchmark(p) ==
    IF p.kind = "oserror" THEN Raised(p.stderr)
    ELSE IF p.kind = "timeout" THEN TimedOut(p)
    ELSE IF p.returncode # 0 THEN NonZeroExit(p)
    ELSE Parsed(p)

--------------------------------------------------------------------------
(* Sample output of the benchmark executables *)

LineM800 == <<"MFLOPS:", " ", "8", "0", "0">>

LineG42 == <<"4", ".", "2", " ", "GFLOPS">>

LineBadM == <<"MFLOPS:", " ", "1", ".", "2", ".", "3">>

LineBadG == <<".", ".", ".", " ", "GFLOPS">>

LineNoTag == <<"o", "k">>

LineNoNumber == <<"MFLOPS:", " ", "x", " ", "GFLOPS">>

LineM500 == <<"MFLOPS:", " ", "5", "0", "0">>

LineBoth == <<"MFLOPS:", " ", "5", "0", "0", " ", "2", ".", "0", " ", "GFLOPS">>

LineBothTight ==
    <<"x", " ", "MFLOPS:", "1", "5", "0", "0", " ", "3", ".", "5", "GFLOPS", "y">>

LineM1500 == <<"a", "MFLOPS:", " ", " ", "1", "5", "0", "0", ".", "b">>

SampleLines ==
    {LineM800, LineG42, LineBadM, LineBadG, LineNoTag, LineNoNumber,
     LineM500, LineBoth, LineBothTight, LineM1500}

RECURSIVE JoinLines(_)
JoinLines(ls) ==
    IF ls = <<>> THEN <<>>
    ELSE IF Len(ls) = 1 THEN ls[1]
    ELSE ls[1] \o <<"\n">> \o JoinLines(Tail(ls))

SeqsUpTo(S, n) == UNION {[1..k -> S] : k \in 0..n}

\* every text of at most MaxLines sample lines
Stdouts == {JoinLines(ls) : ls \in SeqsUpTo(SampleLines, MaxLines)}

\* the texts the pipeline's benchmarks print
ScenarioOutputs ==
    {JoinLines(<<LineM800>>), JoinLines(<<LineG42>>), JoinLines(<<LineBadM>>),
     JoinLines(<<LineNoTag>>), JoinLines(<<LineM500, LineBothTight>>)}

ElapsedSamples == {3, 119}

Behaviours(texts, times) ==
    {[kind |-> "exit", returncode |-> rc, stdout |-> t, stderr |-> "err", elapsed |-> e] :
        rc \in {0, 1}, t \in texts, e \in times}
      \cup {[kind |-> "timeout", returncode |-> 0, stdout |-> t, stderr |-> "", elapsed |-> Timeout + 1] :
        t \in texts}
      \cup {[kind |-> "oserror", returncode |-> 0, stdout |-> <<>>, stderr |-> "Permission denied", elapsed |-> 0]}

--------------------------------------------------------------------------
(* Reporter *)

Truthy(v) == v # None /\ v # 0

FirstNamed(rd, name) ==
    Min({i \in 1..Len(rd) : rd[i].name = name})

MflopsOf(rd) == [i \in 1..Len(rd) |-> rd[i].mflops]

\* BaselinePlain falling back to the largest peak
BaselinePlainMax(rd) ==
    LET found == \E i \in 1..Len(rd) : rd[i].name = BaselineName
        b0    == IF found THEN rd[FirstNamed(rd, BaselineName)].mflops
                 ELSE None
    IN  IF ~Truthy(b0) /\ rd # <<>> THEN SeqMax(MflopsOf(rd)) ELSE b0

\* the rich strategy's baseline
BaselineRich(rd) ==
    LET found == \E i \in 1..Len(rd) : rd[i].name = BaselineName
        b0    == IF found THEN rd[FirstNamed(rd, BaselineName)].mflops
                 ELSE None
    IN  IF ~Truthy(b0) /\ rd # <<>> THEN SeqMin(MflopsOf(rd)) ELSE b0

\* the plain strategy's baseline
BaselinePlain(rd) ==
    LET found == \E i \in 1..Len(rd) : rd[i].name = BaselineName
        b0    == IF found THEN rd[FirstNamed(rd, BaselineName)].mflops
                 ELSE None
    IN  IF ~Truthy(b0) /\ rd # <<>> THEN SeqMin(MflopsOf(rd)) ELSE b0

\* f"{t / 10:.1f}" for a count of tenths
Tenths(t) == ToString(t \div 10) \o "." \o ToString(t % 10)

\* the texts f"{n/d:.1f}x" can be.  A quotient halfway between two tenths is
\* rounded half-even when n/d is a binary fraction; otherwise the text follows
\* the double nearest to n/d, which lies on either side
Fmt1x(n, d) ==
    LET q == (10 * n) \div d
        r == (10 * n) % d
    IN  IF 2 * r < d THEN {Tenths(q) \o "x"}
        ELSE IF 2 * r > d THEN {Tenths(q + 1) \o "x"}
        ELSE IF (4 * n) % d = 0 THEN {Tenths(IF q % 2 = 0 THEN q ELSE q + 1) \o "x"}
        ELSE {Tenths(q) \o "x", Tenths(q + 1) \o "x"}

Relative(mflops, baseline) ==
    IF Truthy(baseline) THEN Fmt1x(mflops, baseline) ELSE {"N/A"}

Perf(r) ==
    IF r.gflops >= Scale THEN [unit |-> "GFLOPS", value |-> r.gflops]
    ELSE [unit |-> "MFLOPS", value |-> r.mflops]

\* the rows the table can hold, one per measurement, in order
RECURSIVE TableRows(_, _)
TableRows(rd, baseline) ==
    IF rd = <<>> THEN {<<>>}
    ELSE {<<[name |-> Head(rd).name, perf |-> Perf(Head(rd)),
             relative |-> rel]>> \o rest :
            rel \in Relative(Head(rd).mflops, baseline),
            rest \in TableRows(Tail(rd), baseline)}

\* max(results_data, key=lambda x: x["mflops"]): the first of the largest
MaxResult(rd) ==
    rd[Min({i \in 1..Len(rd) :
                        \A j \in 1..Len(rd) :
                            rd[j].mflops <= rd[i].mflops})]

\* the panels _display_detailed_output prints: one per successful entry of
\* self.results
RECURSIVE DetailPanels(_)
DetailPanels(rs) ==
    IF rs = <<>> THEN <<>>
    ELSE (IF Head(rs).result.success
          THEN <<[t |-> "panel", name |-> Head(rs).name, text |-> Head(rs).result.output]>>
          ELSE <<>>) \o DetailPanels(Tail(rs))

\* the registry entries run_benchmarks keeps, in registry order
RECURSIVE AvailableFrom(_, _)
AvailableFrom(bm, i) ==
    IF i > Len(BenchmarkFiles) THEN <<>>
    ELSE (IF bm[BenchmarkFiles[i]].available /\ bm[BenchmarkFiles[i]].executable
          THEN <<BenchmarkFiles[i]>> ELSE <<>>) \o AvailableFrom(bm, i + 1)

\* AvailableBenchmarks keeping every existing file, executable or not
RECURSIVE ExistingFrom(_, _)
ExistingFrom(bm, i) ==
    IF i > Len(BenchmarkFiles) THEN <<>>
    ELSE (IF bm[BenchmarkFiles[i]].available
          THEN <<BenchmarkFiles[i]>> ELSE <<>>) \o ExistingFrom(bm, i + 1)

AvailableIgnoringExecutable(bm) == ExistingFrom(bm, 1)

AvailableBenchmarks(bm) == AvailableFrom(bm, 1)

Measurement(name, r) ==
    [name |-> name, mflops |-> r.max_mflops, gflops |-> r.max_gflops,
     duration |-> r.duration, details |-> r.mflops_values]

--------------------------------------------------------------------------
(* The pipeline *)

NoBenchmarks == [n \in Names |-> [available |-> FALSE, executable |-> FALSE]]

Init ==
    /\ build \in BOOLEAN
    /\ verbose \in BOOLEAN
    /\ rich \in BOOLEAN
    /\ fs \in [Names -> FsEntries]
    /\ pc = "main"
    /\ benchmarks = NoBenchmarks
    /\ results = <<>>
    /\ available_benchmarks = <<>>
    /\ idx = 1
    /\ proc = <<>>
    /\ result = <<>>
    /\ results_data = <<>>
    /\ baseline_mflops = None
    /\ out = <<>>
    /\ launched = <<>>

\* Build without the return after a failed build
BuildWithoutReturn ==
    /\ pc = "main"
    /\ build
    /\ \E rc \in {0, 2} :
         /\ out' = Append(out, IF rc # 0 THEN [t |-> "build_failed", text |-> "make: error"]
                               ELSE [t |-> "build_ok"])
         /\ pc' = "construct"
    /\ UNCHANGED <<build, verbose, rich, fs, benchmarks, results,
                   available_benchmarks, idx, proc, result, results_data,
                   baseline_mflops, launched>>

\* main with --build: make all, and return if it fails
Build ==
    /\ pc = "main"
    /\ build
    /\ \E rc \in {0, 2} :
         IF rc # 0
         THEN /\ out' = Append(out, [t |-> "build_failed", text |-> "make: error"])
              /\ pc' = "aborted"
         ELSE /\ out' = Append(out, [t |-> "build_ok"])
              /\ pc' = "construct"
    /\ UNCHANGED <<build, verbose, rich, fs, benchmarks, results,
                   available_benchmarks, idx, proc, result, results_data,
                   baseline_mflops, launched>>

\* main without --build
SkipBuild ==
    /\ pc = "main"
    /\ ~build
    /\ pc' = "construct"
    /\ UNCHANGED <<build, verbose, rich, fs, benchmarks, results,
                   available_benchmarks, idx, proc, result, results_data,
                   baseline_mflops, out, launched>>

\* BenchmarkRunner(): the registry is filled, self.results is empty
Construct ==
    /\ pc = "construct"
    /\ benchmarks' = _detect_benchmarks(fs)
    /\ results' = <<>>
    /\ pc' = "run_benchmarks"
    /\ UNCHANGED <<build, verbose, rich, fs, available_benchmarks, idx, proc,
                   result, results_data, baseline_mflops, out, launched>>

\* run_benchmarks up to its loop
StartRun ==
    /\ pc = "run_benchmarks"
    /\ available_benchmarks' = AvailableBenchmarks(benchmarks)
    /\ idx' = 1
    /\ results_data' = <<>>
    /\ IF AvailableBenchmarks(benchmarks) = <<>>
       THEN /\ out' = Append(out, [t |-> "no_benchmarks"])
            /\ pc' = "done"
       ELSE /\ out' = Append(out, [t |-> "running", count |-> Len(AvailableBenchmarks(benchmarks))])
            /\ pc' = "loop"
    /\ UNCHANGED <<build, verbose, rich, fs, benchmarks, results, proc, result,
                   baseline_mflops, launched>>

\* the loop body up to subprocess.run: the child starts
Launch ==
    /\ pc = "loop"
    /\ idx <= Len(available_benchmarks)
    /\ \E p \in Behaviours(ScenarioOutputs, {3}) :
         /\ proc' = <<p>>
         /\ launched' = Append(launched, [name |-> available_benchmarks[idx], child |-> p])
    /\ pc' = "await"
    /\ UNCHANGED <<build, verbose, rich, fs, benchmarks, results,
                   available_benchmarks, idx, result, results_data,
                   baseline_mflops, out>>

\* subprocess.run returns or raises; the rest of the loop body
Await ==
    /\ pc = "await"
    /\ LET name == available_benchmarks[idx]
           r    == _run_benchmark(proc[1])
       IN  /\ result' = <<r>>
           /\ IF r.success
              THEN /\ results_data' = Append(results_data, Measurement(name, r))
                   /\ out' = IF verbose THEN Append(out, [t |-> "completed", name |-> name])
                             ELSE out
              ELSE /\ results_data' = results_data
                   /\ out' = Append(out, [t |-> "failed", name |-> name, error |-> r.error])
    /\ proc' = <<>>
    /\ idx' = idx + 1
    /\ pc' = "loop"
    /\ UNCHANGED <<build, verbose, rich, fs, benchmarks, results,
                   available_benchmarks, baseline_mflops, launched>>

AfterDisplay == IF verbose THEN "detail" ELSE "done"

\* _display_results(results_data)
Display ==
    /\ pc = "loop"
    /\ idx > Len(available_benchmarks)
    /\ IF results_data = <<>>
       THEN /\ pc' = AfterDisplay
            /\ UNCHANGED <<baseline_mflops, out>>
       ELSE LET b  == IF rich THEN BaselineRich(results_data) ELSE BaselinePlain(results_data)
                mr == MaxResult(results_data)
            IN  /\ baseline_mflops' = b
                /\ \E rows \in TableRows(results_data, b) :
                     IF rich
                     THEN IF b = 0
                          THEN \* line 424 divides by the baseline
                               /\ out' = Append(out, [t |-> "table", rows |-> rows])
                               /\ pc' = "crashed"
                          ELSE \E imp \in Fmt1x(mr.mflops, b) :
                                 /\ out' = out \o
                                      <<[t |-> "table", rows |-> rows],
                                        [t |-> "summary", peak_gflops |-> mr.gflops,
                                         best |-> mr.name, improvement |-> imp]>>
                                 /\ pc' = AfterDisplay
                     ELSE /\ out' = out \o
                               <<[t |-> "table", rows |-> rows],
                                 [t |-> "summary", peak_gflops |-> mr.gflops,
                                  best |-> mr.name]>>
                          /\ pc' = AfterDisplay
    /\ UNCHANGED <<build, verbose, rich, fs, benchmarks, results,
                   available_benchmarks, idx, proc, result, results_data, launched>>

\* _display_detailed_output()
Detail ==
    /\ pc = "detail"
    /\ out' = Append(out, [t |-> "detail_header"]) \o DetailPanels(results)
    /\ pc' = "done"
    /\ UNCHANGED <<build, verbose, rich, fs, benchmarks, results,
                   available_benchmarks, idx, proc, result, results_data,
                   baseline_mflops, launched>>

Next ==
    \/ Build
    \/ SkipBuild
    \/ Construct
    \/ StartRun
    \/ Launch
    \/ Await
    \/ Display
    \/ Detail

Spec == Init /\ [][Next]_vars

--------------------------------------------------------------------------
(* One call of _run_benchmark on any child behaviour *)

InitRun ==
    /\ build = FALSE
    /\ verbose = FALSE
    /\ rich = FALSE
    /\ fs = [n \in Names |-> [kind |-> "file", x |-> TRUE]]
    /\ pc = "call"
    /\ benchmarks = _detect_benchmarks(fs)
    /\ results = <<>>
    /\ available_benchmarks = <<>>
    /\ idx = 1
    /\ proc \in {<<p>> : p \in Behaviours(Stdouts, ElapsedSamples)}
    /\ result = <<>>
    /\ results_data = <<>>
    /\ baseline_mflops = None
    /\ out = <<>>
    /\ launched = <<>>

RunOnce ==
    /\ pc = "call"
    /\ result' = <<_run_benchmark(proc[1])>>
    /\ pc' = "return"
    /\ UNCHANGED <<build, verbose, rich, fs, benchmarks, results,
                   available_benchmarks, idx, proc, results_data,
                   baseline_mflops, out, launched>>

NextRun == RunOnce

SpecRun == InitRun /\ [][NextRun]_vars

--------------------------------------------------------------------------
(* Properties *)

Text800 == JoinLines(<<LineM800>>)

Text42 == JoinLines(<<LineG42>>)

Finished == pc \in {"detail", "done", "crashed"}

\* the j-th launched child has been awaited
RunEnded(j) == j < Len(launched) \/ pc # "await"

MeasuredNames == {results_data[k].name : k \in 1..Len(results_data)}

Events(t) == {k \in 1..Len(out) : out[k].t = t}

Runnable(n) == benchmarks[n].available /\ benchmarks[n].executable

ExitedZero(c) == c.kind = "exit" /\ c.returncode = 0

\* C1: with basic and vectorized runnable and gpu missing, basic printing
\* "MFLOPS: 800" and vectorized printing "4.2 GFLOPS", both exiting 0, the
\* report has baseline 800 MFLOPS, vectorized peak 4200 MFLOPS = 4.2 GFLOPS,
\* vectorized relative factor "5.3x", and the best measurement is vectorized
C1_EndToEnd ==
    ( /\ pc = "done"
      /\ Runnable("basic") /\ Runnable("vectorized") /\ fs["gpu"].kind = "absent"
      /\ Len(launched) = 2
      /\ launched[1].name = "basic" /\ ExitedZero(launched[1].child)
      /\ launched[1].child.stdout = Text800
      /\ launched[2].name = "vectorized" /\ ExitedZero(launched[2].child)
      /\ launched[2].child.stdout = Text42 )
    => /\ baseline_mflops = 800 * Scale
       /\ Len(results_data) = 2
       /\ results_data[2].mflops = 4200 * Scale
       /\ results_data[2].gflops = 4200
       /\ \A k \in Events("table") : out[k].rows[2].relative = "5.3x"
       /\ \A k \in Events("summary") : out[k].best = "vectorized"

\* C2: a child that exits 0 within the timeout gives success = True whatever
\* its stdout is
C2_ExitZeroSucceeds ==
    (pc = "return" /\ ExitedZero(proc[1])) => result[1].success

\* C3: a benchmark that exits non-zero gives a failed result that is printed
\* with its name and never enters the measurements, the table or the summary,
\* whatever its stdout holds, and the loop goes on to the next benchmark
C3_NonZeroExitExcluded ==
    \A j \in 1..Len(launched) :
        ( /\ RunEnded(j)
          /\ launched[j].child.kind = "exit"
          /\ launched[j].child.returncode # 0 )
        => /\ launched[j].name \notin MeasuredNames
           /\ \E k \in Events("failed") :
                 out[k].name = launched[j].name /\ out[k].error = launched[j].child.stderr
           /\ \A k \in Events("table") :
                 \A i \in 1..Len(out[k].rows) : out[k].rows[i].name # launched[j].name
           /\ \A k \in Events("summary") : out[k].best # launched[j].name
           /\ (j = Len(launched) /\ pc = "loop" => idx = j + 1)
           /\ (Finished => Len(launched) = Len(available_benchmarks))

C3_Witness ==
    /\ pc = "done"
    /\ Len(launched) = 2
    /\ launched[1].child.kind = "exit"
    /\ launched[1].child.returncode = 1
    /\ launched[1].child.stdout = Text800
    /\ ExitedZero(launched[2].child)
    /\ MeasuredNames = {launched[2].name}
    /\ Events("table") # {}

\* C4: a benchmark that times out gives success = False, duration exactly 120
\* and the error "Benchmark timed out after 120 seconds", whatever it had
\* printed, and no measurement is recorded for it
C4_TimeoutResult ==
    \A j \in 1..Len(launched) :
        (RunEnded(j) /\ launched[j].child.kind = "timeout")
        => /\ launched[j].name \notin MeasuredNames
           /\ \E k \in Events("failed") :
                 /\ out[k].name = launched[j].name
                 /\ out[k].error = "Benchmark timed out after 120 seconds"
           /\ (j = Len(launched) =>
                 result = <<[success |-> FALSE,
                             error |-> "Benchmark timed out after 120 seconds",
                             duration |-> 120]>>)

C4_Witness ==
    /\ pc = "loop"
    /\ Len(launched) = 2
    /\ launched[2].child.kind = "timeout"
    /\ launched[2].child.stdout = Text800
    /\ launched[2].child.elapsed > 120
    /\ Len(result) = 1

\* C5: with --verbose, once the summary table is out, the full stdout of every
\* benchmark that ran successfully is shown
C5_VerboseShowsOutput ==
    (pc = "done" /\ verbose /\ Events("table") # {})
    => \A j \in 1..Len(launched) :
          launched[j].name \in MeasuredNames
          => \E k \in Events("panel") :
                /\ out[k].name = launched[j].name
                /\ out[k].text = launched[j].child.stdout
                /\ \A t \in Events("table") : t < k

\* the registry's runnable names in the order basic, vectorized, gpu
ExpectedLaunches ==
    SelectSeq(<<"basic", "vectorized", "gpu">>, LAMBDA n : Runnable(n))

\* C6: the runnable benchmarks are launched once each, in the order basic,
\* vectorized, gpu, one at a time; a benchmark that is missing or not
\* executable is never launched and none is launched twice
C6_SequentialOnce ==
    /\ Len(launched) <= Len(ExpectedLaunches)
    /\ \A j \in 1..Len(launched) : launched[j].name = ExpectedLaunches[j]
    /\ Len(proc) = (IF pc = "await" THEN 1 ELSE 0)
    /\ (pc = "await" => proc[1] = launched[Len(launched)].child)
    /\ (pc \in {"loop", "await"} => Len(launched) = idx - 1 + Len(proc))
    /\ (Finished => Len(launched) = Len(ExpectedLaunches))
    /\ (pc \in {"main", "construct", "run_benchmarks", "aborted"} => launched = <<>>)

C6_Witness ==
    /\ pc = "done"
    /\ fs["vectorized"] = [kind |-> "file", x |-> FALSE]
    /\ Len(launched) = 2
    /\ launched[1].name = "basic"
    /\ launched[2].name = "gpu"
    /\ launched[1].child.kind = "timeout"

\* C7: with --build and a failing build the pipeline stops after printing the
\* build's error text: nothing is detected, launched or reported; with a
\* successful build, or without --build, it goes on to the benchmarks
C7_BuildFailureAborts ==
    /\ (Events("build_failed") # {} =>
          /\ build
          /\ pc = "aborted"
          /\ out = <<[t |-> "build_failed", text |-> "make: error"]>>
          /\ benchmarks = NoBenchmarks
          /\ launched = <<>>
          /\ results_data = <<>>)
    /\ (pc = "aborted" => Events("build_failed") # {})
    /\ (pc \notin {"main", "aborted"} => (~build \/ out[1].t = "build_ok"))

C7_Witness ==
    /\ pc = "aborted"
    /\ build
    /\ \E n \in Names : fs[n] = [kind |-> "file", x |-> TRUE]

\* C8: every descriptor of the registry has executable only if available
C8_ExecutableImpliesExists ==
    pc \notin {"main", "construct"}
    => \A n \in Names : benchmarks[n].executable => benchmarks[n].available

\* C9: for a successful run with samples m and g, max_mflops is max(m) or 0
\* and max_gflops is max(g), else max(m)/1000, else 0
C9_Peaks ==
    (pc = "return" /\ result[1].success)
    => LET m == result[1].mflops_values
           g == result[1].gflops_values
       IN  /\ result[1].max_mflops =
                (IF Len(m) > 0 THEN Max({m[i] : i \in 1..Len(m)}) ELSE 0)
           /\ result[1].max_gflops =
                (IF Len(g) > 0 THEN Max({g[i] : i \in 1..Len(g)})
                 ELSE IF Len(m) > 0 THEN Max({m[i] : i \in 1..Len(m)}) \div 1000
                 ELSE 0)
           /\ (g = <<2000, 3500>> => result[1].max_gflops = 3500)
           /\ (g = <<>> /\ m = <<500000, 1500000>> => result[1].max_gflops = 1500)

C9_Witness ==
    /\ pc = "return"
    /\ result[1].success
    /\ result[1].gflops_values = <<2000, 3500>>
    /\ result[1].mflops_values = <<500000, 1500000>>

\* C10: the baseline is the peak MFLOPS of basic when basic is among the
\* measurements (also when that peak is 0), else the smallest peak MFLOPS, in
\* the rich and in the plain rendering alike
C10_Baseline ==
    (Finished /\ results_data # <<>>)
    => baseline_mflops =
          (IF "basic" \in MeasuredNames
           THEN (CHOOSE r \in {results_data[k] : k \in 1..Len(results_data)} :
                    r.name = "basic").mflops
           ELSE Min({results_data[k].mflops : k \in 1..Len(results_data)}))

C10_Witness ==
    /\ pc = "done"
    /\ ~rich
    /\ Len(results_data) = 2
    /\ "basic" \notin MeasuredNames
    /\ results_data[1].mflops > results_data[2].mflops
    /\ baseline_mflops = results_data[2].mflops

\* C11: with at least one measurement, rendering ends without raising in the
\* rich and in the plain strategy: the table and the summary are printed, every
\* relative figure is peak MFLOPS / baseline as "N.Nx" when the baseline is not
\* zero and "N/A" when it is, and nothing is divided by a zero baseline, the
\* summary's speed-improvement line included
C11_RenderingNeverRaises ==
    (Finished /\ results_data # <<>>)
    => /\ pc # "crashed"
       /\ Events("table") # {}
       /\ Events("summary") # {}
       /\ \A k \in Events("table") :
             /\ Len(out[k].rows) = Len(results_data)
             /\ \A i \in 1..Len(results_data) :
                   IF baseline_mflops = 0
                   THEN out[k].rows[i].relative = "N/A"
                   ELSE out[k].rows[i].relative
                          \in Fmt1x(results_data[i].mflops, baseline_mflops)

==========================================================================
